---- MODULE Spec2Model ----
(***************************************************************************)
(* Model of the tic-tac-toe library: Grid and GameState construction with  *)
(* their validators, GameState.make_move_to, the players and the           *)
(* TicTacToe.play loop.  A cell string is a sequence of one-character      *)
(* strings, index i of the Python string being element i + 1.              *)
(***************************************************************************)
EXTENDS Integers, Sequences, FiniteSets, TLC

VARIABLES
  game_state,   \* the GameState held by the caller: [grid, starting_mark]
  status,       \* outcome of the construction or of the last make_move
  arg,          \* the argument of the last call on game_state
  move,         \* outcome of the last call that returns a Move
  pc,           \* position of TicTacToe.play
  player1,      \* [mark, kind]
  player2,
  rendered,     \* the state the renderer was last called with
  renders,      \* the number of calls of the renderer
  error_handler,\* the error_handler of the TicTacToe, None when there is none
  caught,       \* the InvalidMove caught in the last pass of the loop
  handled,      \* the error error_handler was called with in the last pass
  result        \* the last call on game_state and what it gave

vars == <<game_state, status, arg, move, pc, player1, player2, rendered,
          renders, error_handler, caught, handled, result>>

\* what TicTacToe.play reads and writes besides game_state
play_vars == <<pc, player1, player2, rendered, renders, error_handler, caught, handled>>

----------------------------------------------------------------------------
(* Bounds of the model *)

\* quirk inputs: the first PrefixLen cells range over every character
PrefixLen == 3
\* the indices handed to make_move_to range over -IndexReach..IndexReach - 1
IndexReach == 10
\* a game is followed through at most MaxFailures passes of the loop of
\* TicTacToe.play that end with InvalidMove
MaxFailures == 1

----------------------------------------------------------------------------
(* Characters and marks *)

CROSS == "X"
NAUGHT == "O"
EMPTY == " "
\* two whitespace characters other than the space, and a letter that is no mark
TAB == "TAB"
NEWLINE == "NL"
LETTER == "A"

Mark == <<CROSS, NAUGHT>>
Marks == {CROSS, NAUGHT}
Whitespace == {EMPTY, TAB, NEWLINE}
Chars == {CROSS, NAUGHT, EMPTY, TAB, NEWLINE, LETTER}
\* the character class [\sXO]
GridChars == {EMPTY, TAB, NEWLINE, CROSS, NAUGHT}

None == "None"
NoMove == [status |-> "None"]
NoCall == [call |-> "None"]

other(mark) == IF mark = NAUGHT THEN CROSS ELSE NAUGHT

\* the element of a set of one element; {F(v) : v \in {e}} computes e once
\* however often F uses it
The(S) == CHOOSE r \in S : TRUE

WINNING_PATTERNS ==
  << <<"?", "?", "?", ".", ".", ".", ".", ".", ".">>,
     <<".", ".", ".", "?", "?", "?", ".", ".", ".">>,
     <<".", ".", ".", ".", ".", ".", "?", "?", "?">>,
     <<"?", ".", ".", "?", ".", ".", "?", ".", ".">>,
     <<".", "?", ".", ".", "?", ".", ".", "?", ".">>,
     <<".", ".", "?", ".", ".", "?", ".", ".", "?">>,
     <<"?", ".", ".", ".", "?", ".", ".", ".", "?">>,
     <<".", ".", "?", ".", "?", ".", "?", ".", ".">> >>

----------------------------------------------------------------------------
(* Grid *)

\* " " * n; the default cells of a Grid are Spaces(9)
Spaces(n) == [i \in 1..n |-> EMPTY]

\* str.count of a one-character string
Count(ch, cells) == Cardinality({i \in 1..Len(cells) : cells[i] = ch})

x_count(cells) == Count(CROSS, cells)
o_count(cells) == Count(NAUGHT, cells)
empty_count(cells) == Count(EMPTY, cells)

\* re.match(r"^[\sXO]{9}$", cells): nine characters of the class, then the
\* end of the string or a single newline that ends the string
validate_grid(cells) ==
  /\ Len(cells) >= 9
  /\ \A i \in 1..9 : cells[i] \in GridChars
  /\ \/ Len(cells) = 9
     \/ Len(cells) = 10 /\ cells[10] = NEWLINE

----------------------------------------------------------------------------
(* GameState: derived facts of a grid and a starting mark *)

\* the positions a pattern pins to the mark, and the ones it leaves to "."
PinnedOf(p) == {i \in 1..9 : WINNING_PATTERNS[p][i] = "?"}
FreeOf(p) == {i \in 1..9 : WINNING_PATTERNS[p][i] = "."}

Pinned == <<PinnedOf(1), PinnedOf(2), PinnedOf(3), PinnedOf(4),
            PinnedOf(5), PinnedOf(6), PinnedOf(7), PinnedOf(8)>>
Free == <<FreeOf(1), FreeOf(2), FreeOf(3), FreeOf(4),
          FreeOf(5), FreeOf(6), FreeOf(7), FreeOf(8)>>

\* a match that is content with two of the three marked cells
Mutant_PatternMatches(p, mark, cells) ==
  /\ Len(cells) >= 9
  /\ \E i \in Pinned[p] : \A j \in Pinned[p] \ {i} : cells[j] = mark

\* re.match(pattern.replace("?", mark), cells) for pattern number p: "?"
\* is the mark, "." matches any character but a newline, and the match is
\* anchored at the start only
PatternMatches(p, mark, cells) ==
  /\ Len(cells) >= 9
  /\ \A i \in Pinned[p] : cells[i] = mark
  /\ \A i \in Free[p] : cells[i] # NEWLINE

\* the (pattern, mark) combinations in the order the two loops visit them
Combination(k) == [pattern |-> (k + 1) \div 2, mark |-> Mark[2 - (k % 2)]]

\* the combinations whose pattern matches the cells
Matches(cells) ==
  {k \in 1..16 : PatternMatches((k + 1) \div 2, Mark[2 - (k % 2)], cells)}

\* the loops return at the first match: its number, 0 when there is none
FirstOf(hits) == IF hits = {} THEN 0 ELSE CHOOSE k \in hits : \A j \in hits : k <= j

\* the last matching combination instead of the first
Mutant_FirstMatch(cells) ==
  LET hits == Matches(cells)
  IN IF hits = {} THEN 0 ELSE CHOOSE k \in hits : \A j \in hits : k >= j

\* the number of the first combination that matches, 0 when none does
FirstMatch(cells) == The({FirstOf(hits) : hits \in {Matches(cells)}})

\* the mark of combination k, None for no match
MarkOf(k) == IF k = 0 THEN None ELSE Combination(k).mark

winner(cells) == The({MarkOf(k) : k \in {FirstMatch(cells)}})

\* positions counted from 1
Mutant_PatternCells(p) ==
  LET pos == Pinned[p]
      a == CHOOSE i \in pos : \A j \in pos : i <= j
      c == CHOOSE i \in pos : \A j \in pos : i >= j
      b == CHOOSE i \in pos : i # a /\ i # c
  IN <<a, b, c>>

\* the 0-based positions of "?" in the first matching pattern
PatternCells(p) ==
  LET pos == {i - 1 : i \in Pinned[p]}
      a == CHOOSE i \in pos : \A j \in pos : i <= j
      c == CHOOSE i \in pos : \A j \in pos : i >= j
      b == CHOOSE i \in pos : i # a /\ i # c
  IN <<a, b, c>>

\* the cells of combination k, the empty list for no match
CellsOf(k) == IF k = 0 THEN <<>> ELSE PatternCells(Combination(k).pattern)

winning_cells(cells) == The({CellsOf(k) : k \in {FirstMatch(cells)}})

\* a full grid counted as a tie whether or not it has a winner
Mutant_tie(cells) == empty_count(cells) = 0

\* winner is None and empty_count == 0; both are cached properties without
\* effects, the count is looked at first
tie(cells) == empty_count(cells) = 0 /\ winner(cells) = None

game_over(cells) == winner(cells) # None \/ tie(cells)

game_not_started(cells) == empty_count(cells) = 9

current_mark(gs) ==
  IF x_count(gs.grid) = o_count(gs.grid) THEN gs.starting_mark
  ELSE other(gs.starting_mark)

----------------------------------------------------------------------------
(* Validators: each is TRUE when the check passes, FALSE when it raises *)

Abs(n) == IF n < 0 THEN -n ELSE n

\* the difference taken without abs
Mutant_validate_number_of_marks(cells) == ~(x_count(cells) - o_count(cells) > 1)

validate_number_of_marks(cells) == ~(Abs(x_count(cells) - o_count(cells)) > 1)

validate_starting_mark(cells, starting_mark) ==
  IF x_count(cells) > o_count(cells) THEN ~(starting_mark # CROSS)
  ELSE IF o_count(cells) > x_count(cells) THEN ~(starting_mark # NAUGHT)
  ELSE TRUE

\* equal counts accepted for a winner that started
Mutant_validate_winner(cells, starting_mark, w) ==
  IF w = CROSS
  THEN IF starting_mark = CROSS THEN ~(x_count(cells) < o_count(cells))
       ELSE ~(x_count(cells) # o_count(cells))
  ELSE IF w = NAUGHT
  THEN IF starting_mark = NAUGHT THEN ~(o_count(cells) < x_count(cells))
       ELSE ~(o_count(cells) # x_count(cells))
  ELSE TRUE

validate_winner(cells, starting_mark, w) ==
  IF w = CROSS
  THEN IF starting_mark = CROSS THEN ~(x_count(cells) <= o_count(cells))
       ELSE ~(x_count(cells) # o_count(cells))
  ELSE IF w = NAUGHT
  THEN IF starting_mark = NAUGHT THEN ~(o_count(cells) <= x_count(cells))
       ELSE ~(o_count(cells) # x_count(cells))
  ELSE TRUE

validate_game_state(cells, starting_mark) ==
  /\ validate_number_of_marks(cells)
  /\ validate_starting_mark(cells, starting_mark)
  /\ validate_winner(cells, starting_mark, winner(cells))

\* GameState(Grid(cells), starting_mark): the exception raised, or "ok"
Construct(cells, starting_mark) ==
  IF ~validate_grid(cells) THEN "ValueError"
  ELSE IF ~validate_game_state(cells, starting_mark) THEN "InvalidGameState"
  ELSE "ok"

GameState(cells, starting_mark) == [grid |-> cells, starting_mark |-> starting_mark]

----------------------------------------------------------------------------
(* GameState.make_move_to *)

\* Python's s[:stop] and s[start:] with negative positions counted from the end
Clamp(n, len) == IF n < 0 THEN (IF n + len < 0 THEN 0 ELSE n + len)
                 ELSE (IF n > len THEN len ELSE n)

SliceTo(s, stop) == SubSeq(s, 1, Clamp(stop, Len(s)))
SliceFrom(s, start) == SubSeq(s, Clamp(start, Len(s)) + 1, Len(s))

\* s[index]: the 1-based position read, 0 when Python raises IndexError
Position(s, index) ==
  IF index >= Len(s) \/ index < -Len(s) THEN 0
  ELSE IF index < 0 THEN index + Len(s) + 1 ELSE index + 1

\* the Move(...) expression: the exception its GameState(...) argument
\* raised, else the move
Move(built, mark, index, before_state, after_state) ==
  IF built # "ok" THEN [status |-> built]
  ELSE [status |-> "ok",
        mark |-> mark,
        cell_index |-> index,
        before_state |-> before_state,
        after_state |-> after_state]

\* the cell is not looked at before the mark is written
Mutant_make_move_to(gs, index) ==
  LET cells == gs.grid
      mark == current_mark(gs)
      after == SliceTo(cells, index) \o <<mark>> \o SliceFrom(cells, index + 1)
  IN IF Position(cells, index) = 0 THEN [status |-> "IndexError"]
     ELSE Move(Construct(after, gs.starting_mark), mark, index, gs,
               GameState(after, gs.starting_mark))

\* cells[:index] + mark + cells[index + 1:]
Marked(cells, mark, index) ==
  SliceTo(cells, index) \o <<mark>> \o SliceFrom(cells, index + 1)

\* the move that leads to the cells after
MoveWith(gs, mark, index, after) ==
  The({Move(built, mark, index, gs, GameState(after, gs.starting_mark)) :
         built \in {Construct(after, gs.starting_mark)}})

\* the move of mark to index
MoveTo(gs, mark, index) ==
  The({MoveWith(gs, mark, index, after) : after \in {Marked(gs.grid, mark, index)}})

make_move_to(gs, index) ==
  LET cells == gs.grid
      pos == Position(cells, index)
  IN IF pos = 0 THEN [status |-> "IndexError"]
     ELSE IF cells[pos] # EMPTY THEN [status |-> "InvalidMove"]
     ELSE The({MoveTo(gs, mark, index) : mark \in {current_mark(gs)}})

----------------------------------------------------------------------------
(* GameState.possible_moves, make_random_move, evaluate_score *)

\* the elements of a set of integers in ascending order
Ascending(S) ==
  [k \in 1..Cardinality(S) |-> CHOOSE i \in S : Cardinality({j \in S : j < i}) = k - 1]

\* re.finditer(r"\s", cells): the 0-based positions of whitespace, ascending
WhitespaceIndices(cells) ==
  Ascending({i \in 0..(Len(cells) - 1) : cells[i + 1] \in Whitespace})

\* one make_move_to per position of idx, in order, as a list
MovesTo(gs, idx) == [k \in 1..Len(idx) |-> make_move_to(gs, idx[k])] \o <<>>

\* the list of the moves; the first call that raised ends the property with
\* its exception
Collected(results) ==
  LET raised == {k \in 1..Len(results) : results[k].status # "ok"}
  IN IF raised = {} THEN [status |-> "ok", moves |-> results]
     ELSE [status |-> results[CHOOSE k \in raised : \A j \in raised : k <= j].status]

possible_moves(gs) ==
  IF game_over(gs.grid) THEN [status |-> "ok", moves |-> <<>>]
  ELSE The({Collected(results) :
              results \in {The({MovesTo(gs, idx) : idx \in {WhitespaceIndices(gs.grid)}})}})

\* random.choice(possible_moves): every element may be returned, None when
\* there is none (IndexError caught)
Choice(pm) ==
  IF pm.status # "ok" THEN {[status |-> pm.status]}
  ELSE IF pm.moves = <<>> THEN {NoMove}
  ELSE {pm.moves[k] : k \in 1..Len(pm.moves)}

make_random_move(gs) == The({Choice(pm) : pm \in {possible_moves(gs)}})

\* the scores of winner and loser exchanged
Mutant_evaluate_score(gs, mark) ==
  IF game_over(gs.grid)
  THEN IF tie(gs.grid) THEN [status |-> "ok", score |-> 0]
       ELSE IF winner(gs.grid) = mark THEN [status |-> "ok", score |-> -1]
       ELSE [status |-> "ok", score |-> 1]
  ELSE [status |-> "UnknownGameScore"]

evaluate_score(gs, mark) ==
  IF game_over(gs.grid)
  THEN IF tie(gs.grid) THEN [status |-> "ok", score |-> 0]
       ELSE IF winner(gs.grid) = mark THEN [status |-> "ok", score |-> 1]
       ELSE [status |-> "ok", score |-> -1]
  ELSE [status |-> "UnknownGameScore"]

----------------------------------------------------------------------------
(* Minimax search *)

Max(S) == CHOOSE n \in S : \A m \in S : n >= m
Min(S) == CHOOSE n \in S : \A m \in S : n <= m

\* the nine-cell strings over X, O and the space
StandardCells == [1..9 -> {CROSS, NAUGHT, EMPTY}]

\* the constructed game states over standard cells: the states a search visits
SearchStates ==
  {gs \in {GameState(c, m) : c \in StandardCells, m \in Marks} :
     Construct(gs.grid, gs.starting_mark) = "ok"}

\* the value a deeper level of the search recorded for the arguments
Recorded(deeper, gs, maximizer, choose_highest_score) ==
  CHOOSE v \in -1..1 : <<gs, maximizer, choose_highest_score, v>> \in deeper

\* the values recorded one ply deeper for the states after the moves
Scores(moves, maximizer, choose_highest_score, deeper) ==
  {Recorded(deeper, moves[k].after_state, maximizer, choose_highest_score) :
     k \in 1..Len(moves)}

\* (max if choose_highest_score else min)(scores)
MaxOrMin(choose_highest_score, scores) ==
  IF choose_highest_score THEN Max(scores) ELSE Min(scores)

\* one level of the recursion: the score of a finished game, else the
\* maximum or minimum over the possible moves of the values one ply deeper
MinimaxStep(gs, maximizer, choose_highest_score, deeper) ==
  IF game_over(gs.grid) THEN evaluate_score(gs, maximizer).score
  ELSE MaxOrMin(choose_highest_score,
                Scores(possible_moves(gs).moves, maximizer, ~choose_highest_score, deeper))

\* the values of all search states with n empty cells, given the values of
\* the states with n - 1 empty cells, as the set of <<state, maximizer,
\* choose_highest_score, value>>.  The search is a pure function of its
\* arguments, so each value is computed once; the arguments are the ones the
\* recursion passes: it starts with the minimum after a move of the
\* maximizer and alternates, so the maximum is taken where the maximizer moves
Level(n, deeper) ==
  {<<gs, m, current_mark(gs) = m, MinimaxStep(gs, m, current_mark(gs) = m, deeper)>> :
     gs \in {g \in SearchStates : empty_count(g.grid) = n}, m \in Marks}

Level0 == Level(0, {})
Level1 == Level(1, Level0)
Level2 == Level(2, Level1)
Level3 == Level(3, Level2)
Level4 == Level(4, Level3)
Level5 == Level(5, Level4)
Level6 == Level(6, Level5)
Level7 == Level(7, Level6)
Level8 == Level(8, Level7)

\* the levels by number of empty cells, 0 to 8 (a move leaves at most 8)
Levels == <<Level0, Level1, Level2, Level3, Level4, Level5, Level6, Level7, Level8>>

\* the value, for the mark under optimization, of a state reached by a move
minimax(gs, maximizer, choose_highest_score) ==
  Recorded(Levels[empty_count(gs.grid) + 1], gs, maximizer, choose_highest_score)

\* the position max() returns: the first one of maximal score
FirstMax(score) ==
  CHOOSE k \in DOMAIN score :
    /\ \A j \in DOMAIN score : score[k] >= score[j]
    /\ \A j \in 1..(k - 1) : score[j] < score[k]

\* the move of maximal minimax value among the possible moves, None when
\* there is none
BestOf(moves, maximizer) ==
  IF moves = <<>> THEN NoMove
  ELSE moves[The({FirstMax(score) :
                    score \in {[k \in 1..Len(moves) |->
                                 minimax(moves[k].after_state, maximizer, FALSE)] \o <<>>}})]

\* the first move, in ascending cell order, of maximal minimax value
find_best_move(gs) ==
  The({BestOf(moves, current_mark(gs)) : moves \in {possible_moves(gs).moves}})

----------------------------------------------------------------------------
(* Players *)

Kinds == {"random", "minimax"}

Player(mark, kind) == [mark |-> mark, kind |-> kind]

\* RandomComputerPlayer.get_computer_move: the moves it may return
RandomComputerPlayer_get_computer_move(gs) == make_random_move(gs)

\* a minimax player that never searches
Mutant_get_computer_move(gs) == make_random_move(gs)

\* MinimaxComputerPlayer.get_computer_move: a random opening, else the best move
MinimaxComputerPlayer_get_computer_move(gs) ==
  IF game_not_started(gs.grid) THEN make_random_move(gs)
  ELSE {find_best_move(gs)}

\* Player.get_move is abstract.  A subclass outside the library may return
\* None or the Move of a make_move_to call, whose InvalidMove it lets through
Player_get_move(gs) == {NoMove} \cup {make_move_to(gs, index) : index \in 0..8}

\* get_move of the player's class; for the computer players
\* ComputerPlayer.get_move: the pause, then the variant's choice
get_move(player, gs) ==
  IF player.kind = "minimax" THEN MinimaxComputerPlayer_get_computer_move(gs)
  ELSE IF player.kind = "random" THEN RandomComputerPlayer_get_computer_move(gs)
  ELSE Player_get_move(gs)

NoMoreMoves == "No more possible moves"
OtherTurn == "It's the other player's turn"
NotEmpty == "Cell is not empty"

\* the end of Player.make_move once get_move has answered with m: the
\* after_state of a move, InvalidMove for None, else the exception get_move raised
Answered(m, gs) ==
  IF m.status = "ok"
  THEN [status |-> "ok", error |-> None, asked |-> TRUE, answer |-> m,
        move |-> m, state |-> m.after_state]
  ELSE IF m = NoMove
  THEN [status |-> "InvalidMove", error |-> NoMoreMoves, asked |-> TRUE, answer |-> m,
        move |-> NoMove, state |-> gs]
  ELSE [status |-> m.status,
        error |-> IF m.status = "InvalidMove" THEN NotEmpty ELSE m.status,
        asked |-> TRUE, answer |-> m, move |-> NoMove, state |-> gs]

\* a make_move that asks get_move whoever's turn it is
Mutant_make_move(player, gs) == {Answered(m, gs) : m \in get_move(player, gs)}

\* Player.make_move: the outcomes, one per move get_move may return; state
\* is what the caller holds afterwards, asked says whether get_move was
\* called and answer what it returned or raised
make_move(player, gs) ==
  IF player.mark = current_mark(gs)
  THEN {Answered(m, gs) : m \in get_move(player, gs)}
  ELSE {[status |-> "InvalidMove", error |-> OtherTurn, asked |-> FALSE, answer |-> NoMove,
         move |-> NoMove, state |-> gs]}

\* players that are never refused
Mutant_validate_players(p1, p2) == TRUE

\* validate_players: TRUE when the players use different marks
validate_players(p1, p2) == ~(p1.mark = p2.mark)

----------------------------------------------------------------------------
(* TicTacToe.play *)

\* a loop that always asks the first player
Mutant_get_current_player(gs) == player1

get_current_player(gs) ==
  IF current_mark(gs) = player1.mark THEN player1 ELSE player2

\* play(starting_mark) of a TicTacToe with two valid players of the given
\* kinds, its first statement done: game_state = GameState(Grid(), starting_mark)
Started(kinds, handlers) ==
  /\ \E m1 \in Marks, m2 \in Marks, k1 \in kinds, k2 \in kinds :
       /\ validate_players(Player(m1, k1), Player(m2, k2))
       /\ player1 = Player(m1, k1)
       /\ player2 = Player(m2, k2)
  /\ \E starting_mark \in Marks :
       /\ game_state = GameState(Spaces(9), starting_mark)
       /\ status = Construct(Spaces(9), starting_mark)
  /\ error_handler \in handlers
  /\ arg = None
  /\ move = NoMove
  /\ pc = "render"
  /\ rendered = None
  /\ renders = 0
  /\ caught = None
  /\ handled = None
  /\ result = NoCall

\* computer players, error_handler left at its default
Init == Started(Kinds, {None})

\* the passes of the loop so far that ended with InvalidMove: every pass
\* starts with a call of the renderer, every other pass filled a cell
Failures == renders - 1 - (9 - empty_count(game_state.grid))

\* a loop that tests game_over first and renders only when it goes on
Mutant_Render ==
  /\ pc = "render"
  /\ IF game_over(game_state.grid)
     THEN pc' = "done" /\ UNCHANGED <<rendered, renders>>
     ELSE pc' = "move" /\ rendered' = game_state /\ renders' = renders + 1
  /\ UNCHANGED <<game_state, status, arg, move, player1, player2,
                 error_handler, caught, handled, result>>

\* self.renderer.render(game_state), then the test that leaves the loop
Render ==
  /\ pc = "render"
  /\ rendered' = game_state
  /\ renders' = renders + 1
  /\ pc' = IF game_over(game_state.grid) THEN "done" ELSE "move"
  /\ UNCHANGED <<game_state, status, arg, move, player1, player2,
                 error_handler, caught, handled, result>>

\* a loop that catches InvalidMove and never calls error_handler
Mutant_MakeMove ==
  /\ pc = "move"
  /\ \E outcome \in make_move(get_current_player(game_state), game_state) :
       /\ outcome.status \in {"ok", "InvalidMove"}
       /\ outcome.status = "InvalidMove" => Failures < MaxFailures
       /\ game_state' = outcome.state
       /\ status' = outcome.status
       /\ move' = outcome.move
       /\ caught' = outcome.error
       /\ handled' = None
  /\ pc' = "render"
  /\ UNCHANGED <<arg, player1, player2, rendered, renders, error_handler, result>>

\* the current player is asked for a move; InvalidMove is caught and handed
\* to error_handler when there is one, game_state is assigned only when
\* make_move returns
MakeMove ==
  /\ pc = "move"
  /\ \E outcome \in make_move(get_current_player(game_state), game_state) :
       /\ outcome.status \in {"ok", "InvalidMove"}
       /\ outcome.status = "InvalidMove" => Failures < MaxFailures
       /\ game_state' = outcome.state
       /\ status' = outcome.status
       /\ move' = outcome.move
       /\ caught' = outcome.error
       /\ handled' = IF outcome.status = "InvalidMove" /\ error_handler # None
                     THEN outcome.error ELSE None
  /\ pc' = "render"
  /\ UNCHANGED <<arg, player1, player2, rendered, renders, error_handler, result>>

Next == Render \/ MakeMove

Spec == Init /\ [][Next]_vars

\* play is a running call: the loop takes its next step as long as it has
\* one, the renderer and the computer players return
FairSpec == Spec /\ WF_vars(Next)

\* the same loop with players of a class outside the library, with and
\* without error_handler
Handlers == {None, "error_handler"}
OtherInit == Started({"other"}, Handlers)
OtherSpec == OtherInit /\ [][Next]_vars

----------------------------------------------------------------------------
(* Inputs of the construction specification *)

\* strings of length 8 to 10: PrefixLen arbitrary characters, spaces up to
\* length 8 and at most two more arbitrary characters
QuirkCells ==
  { p \o Spaces(8 - PrefixLen) \o s :
      p \in [1..PrefixLen -> Chars],
      s \in {<<>>} \cup [1..1 -> Chars] \cup [1..2 -> Chars] }

InputCells == StandardCells \cup QuirkCells

IndexRange == (-IndexReach)..(IndexReach - 1)

Idle == [mark |-> None, kind |-> None]

\* the caller holds a cell string and a starting mark, nothing is built yet
CtorInit ==
  /\ game_state \in {GameState(c, m) : c \in InputCells, m \in Marks}
  /\ status = "input"
  /\ arg = None
  /\ move = NoMove
  /\ pc = "idle"
  /\ player1 = Idle
  /\ player2 = Idle
  /\ rendered = None
  /\ renders = 0
  /\ error_handler = None
  /\ caught = None
  /\ handled = None
  /\ result = NoCall

\* GameState(Grid(cells), starting_mark)
NewGameState ==
  /\ status = "input"
  /\ status' = Construct(game_state.grid, game_state.starting_mark)
  /\ UNCHANGED <<game_state, arg, move, play_vars, result>>

\* game_state.make_move_to(index) on a constructed state
MakeMoveTo ==
  /\ status = "ok"
  /\ move = NoMove
  /\ \E index \in IndexRange :
       /\ arg' = index
       /\ move' = make_move_to(game_state, index)
  /\ UNCHANGED <<game_state, status, play_vars, result>>

CtorNext == NewGameState \/ MakeMoveTo

CtorSpec == CtorInit /\ [][CtorNext]_vars

----------------------------------------------------------------------------
(* Calls on a constructed state *)

AllKinds == Kinds \cup {"other"}

\* the caller holds a state the construction returned
CallInit ==
  /\ game_state \in {gs \in {GameState(c, m) : c \in InputCells, m \in Marks} :
                       Construct(gs.grid, gs.starting_mark) = "ok"}
  /\ status = "ok"
  /\ arg = None
  /\ move = NoMove
  /\ pc = "idle"
  /\ player1 = Idle
  /\ player2 = Idle
  /\ rendered = None
  /\ renders = 0
  /\ error_handler = None
  /\ caught = None
  /\ handled = None
  /\ result = NoCall

\* game_state.evaluate_score(mark)
EvaluateScore ==
  /\ result = NoCall
  /\ \E mark \in Marks :
       result' = [call |-> "evaluate_score", mark |-> mark,
                  value |-> evaluate_score(game_state, mark)]
  /\ UNCHANGED <<game_state, status, arg, move, play_vars>>

\* game_state.possible_moves
PossibleMoves ==
  /\ result = NoCall
  /\ result' = [call |-> "possible_moves", value |-> possible_moves(game_state)]
  /\ UNCHANGED <<game_state, status, arg, move, play_vars>>

\* game_state.make_random_move()
MakeRandomMove ==
  /\ result = NoCall
  /\ \E m \in make_random_move(game_state) :
       result' = [call |-> "make_random_move", value |-> m]
  /\ UNCHANGED <<game_state, status, arg, move, play_vars>>

\* player.make_move(game_state) for a player of either mark and any kind;
\* the search of the minimax player is followed on grids of X, O and space
PlayerMakeMove ==
  /\ result = NoCall
  /\ \E mark \in Marks, kind \in AllKinds :
       /\ kind = "minimax" => game_state.grid \in StandardCells
       /\ \E outcome \in make_move(Player(mark, kind), game_state) :
            result' = [call |-> "make_move", player |-> Player(mark, kind),
                       value |-> outcome]
  /\ UNCHANGED <<game_state, status, arg, move, play_vars>>

CallNext == EvaluateScore \/ PossibleMoves \/ MakeRandomMove \/ PlayerMakeMove

CallSpec == CallInit /\ [][CallNext]_vars

----------------------------------------------------------------------------
(* Claims about driven games (specification Spec) *)

MinimaxVsRandom == {player1.kind, player2.kind} = {"minimax", "random"}
BothMinimax == player1.kind = "minimax" /\ player2.kind = "minimax"
MinimaxMark == IF player1.kind = "minimax" THEN player1.mark ELSE player2.mark

\* C1: in a game between a minimax player and a random player no state has
\* the random player's mark as winner, and the game ends with the minimax
\* player's mark as winner or with a tie
C1_MinimaxWinsOrTies ==
  MinimaxVsRandom =>
    /\ winner(game_state.grid) \in {None, MinimaxMark}
    /\ pc = "done" => \/ winner(game_state.grid) = MinimaxMark
                      \/ tie(game_state.grid)

\* a finished game the minimax player won against the random player
C1_Witness ==
  /\ MinimaxVsRandom
  /\ pc = "done"
  /\ winner(game_state.grid) = MinimaxMark

\* C2: a game of the minimax player against itself ends in a tie, with no winner
C2_SelfPlayTies ==
  (BothMinimax /\ pc = "done") =>
    tie(game_state.grid) /\ winner(game_state.grid) = None

\* a finished game between two minimax players
C2_Witness ==
  /\ BothMinimax
  /\ pc = "done"
  /\ empty_count(game_state.grid) = 0

----------------------------------------------------------------------------
(* Claims about construction and make_move_to (specification CtorSpec) *)

Constructed == status = "ok"
Called == move # NoMove

\* the grid after a successful move differs from cells at position i only,
\* where it holds the mark
DiffersOnlyAt(cells, after, i, mark) ==
  /\ Len(after) = Len(cells)
  /\ after[i] = mark
  /\ \A j \in 1..Len(cells) : j # i => after[j] = cells[j]

\* C3 as stated: on every constructed state, game-over states included,
\* make_move_to(index) with index in 0..8 raises InvalidMove on an occupied
\* cell and succeeds on an empty one, changing the grid at index only
C3_AsStated ==
  (Constructed /\ Called /\ arg \in 0..8) =>
    IF game_state.grid[arg + 1] # EMPTY THEN move.status = "InvalidMove"
    ELSE /\ move.status = "ok"
         /\ DiffersOnlyAt(game_state.grid, move.after_state.grid, arg + 1,
                          current_mark(game_state))

\* C3 amended: InvalidMove on every cell that is not empty; on an empty cell
\* of a state that is not game over the call succeeds and changes the grid
\* at index only; on an empty cell of a finished game it succeeds in that
\* way or raises InvalidGameState
C3_MoveToCell ==
  (Constructed /\ Called /\ arg \in 0..8) =>
    IF game_state.grid[arg + 1] # EMPTY THEN move.status = "InvalidMove"
    ELSE /\ ~game_over(game_state.grid) => move.status = "ok"
         /\ move.status \in {"ok", "InvalidGameState"}
         /\ move.status = "ok" =>
              /\ DiffersOnlyAt(game_state.grid, move.after_state.grid, arg + 1,
                               current_mark(game_state))
              /\ move.after_state.starting_mark = game_state.starting_mark

\* a move to an empty cell of an unfinished game that succeeded
C3_Witness ==
  /\ Constructed /\ Called /\ arg \in 0..8
  /\ game_state.grid[arg + 1] = EMPTY
  /\ ~game_over(game_state.grid)
  /\ ~game_not_started(game_state.grid)
  /\ move.status = "ok"

\* C4 as stated: make_move_to(index) with index outside 0..8 raises
\* InvalidMove, returns no Move and places no mark
C4_AsStated ==
  (Constructed /\ Called /\ arg \notin 0..8) => move.status = "InvalidMove"

\* a state that legal alternating play, stopping when the game is over,
\* produces from the empty grid with the starting mark
RECURSIVE ReachableByPlay(_)
ReachableByPlay(gs) ==
  /\ gs.grid \in StandardCells
  /\ \/ gs.grid = Spaces(9)
     \/ \E i \in 1..9 :
          LET before == GameState([gs.grid EXCEPT ![i] = EMPTY], gs.starting_mark)
          IN /\ gs.grid[i] \in Marks
             /\ Construct(before.grid, before.starting_mark) = "ok"
             /\ ~game_over(before.grid)
             /\ current_mark(before) = gs.grid[i]
             /\ ReachableByPlay(before)

HasLine(mark, cells) ==
  \E p \in 1..8 : \A i \in Pinned[p] : cells[i] = mark

\* C5 as stated: every state construction accepts is reachable by legal
\* play, and none holds complete lines of both marks
C5_AsStated ==
  Constructed =>
    /\ ReachableByPlay(game_state)
    /\ ~(HasLine(CROSS, game_state.grid) /\ HasLine(NAUGHT, game_state.grid))

\* C6: a grid with more than one mark of difference is rejected with
\* InvalidGameState for either starting mark; a constructed state has at
\* most one mark of difference, and the mark in the majority started
C6_MarkCounts ==
  LET x == x_count(game_state.grid)
      o == o_count(game_state.grid)
  IN /\ (status # "input" /\ validate_grid(game_state.grid) /\ (x - o > 1 \/ x - o < -1))
          => status = "InvalidGameState"
     /\ Constructed =>
          /\ x - o <= 1 /\ o - x <= 1
          /\ x > o => game_state.starting_mark = CROSS
          /\ o > x => game_state.starting_mark = NAUGHT

\* a grid with two marks more of one kind was rejected
C6_Witness ==
  /\ status = "InvalidGameState"
  /\ x_count(game_state.grid) - o_count(game_state.grid) > 1

\* the winner's count is the larger one when the winner started, else the
\* counts are equal
WinnerCountsAgree(gs) ==
  LET w == winner(gs.grid)
      mine == Count(w, gs.grid)
      theirs == Count(other(w), gs.grid)
  IN IF w = gs.starting_mark THEN mine > theirs ELSE mine = theirs

\* C7: a grid with a winner is constructed only when the winner's count
\* agrees with the starting mark, every other combination is rejected with
\* InvalidGameState
C7_WinnerCounts ==
  (status # "input" /\ validate_grid(game_state.grid) /\ winner(game_state.grid) # None) =>
    /\ Constructed => WinnerCountsAgree(game_state)
    /\ ~WinnerCountsAgree(game_state) => status = "InvalidGameState"

\* a constructed state whose winner moved second
C7_Witness ==
  /\ Constructed
  /\ winner(game_state.grid) # None
  /\ winner(game_state.grid) # game_state.starting_mark

Scenario1 == GameState(<<"X", "X", "X", " ", " ", " ", " ", " ", " ">>, CROSS)
Scenario2 == GameState(<<"X", "O", "X", "O", "X", "O", "X", "O", "X">>, CROSS)

\* the first scenario with two moves of O added
Scenario1Played == GameState(<<"X", "X", "X", "O", "O", " ", " ", " ", " ">>, CROSS)

\* C8 as stated: cells "XXX      " with starting mark X construct, with
\* winner CROSS, winning_cells [0, 1, 2] and game_over
C8_AsStated ==
  (game_state = Scenario1 /\ status # "input") =>
    /\ Constructed
    /\ winner(game_state.grid) = CROSS
    /\ winning_cells(game_state.grid) = <<0, 1, 2>>
    /\ game_over(game_state.grid)

\* C8 amended: cells "XXX      " hold three X and no O, so the construction
\* raises InvalidGameState; with two O added, "XXXOO    ", it succeeds with
\* winner CROSS, winning_cells [0, 1, 2] and game_over
C8_Scenario1 ==
  /\ (game_state = Scenario1 /\ status # "input") => status = "InvalidGameState"
  /\ (game_state = Scenario1Played /\ status # "input") =>
       /\ Constructed
       /\ winner(game_state.grid) = CROSS
       /\ winning_cells(game_state.grid) = <<0, 1, 2>>
       /\ game_over(game_state.grid)

C8_Witness == game_state = Scenario1 /\ status = "InvalidGameState"

\* C9 as stated: cells "XOXOXOXOX" with starting mark X have no winner and
\* are a tie
C9_AsStated ==
  (game_state = Scenario2 /\ Constructed) =>
    winner(game_state.grid) = None /\ tie(game_state.grid)

\* C9 amended: cells "XOXOXOXOX" with starting mark X construct; X holds
\* the diagonal 0-4-8, so winner is CROSS, winning_cells is [0, 4, 8], the
\* game is over and it is not a tie
C9_Scenario2 ==
  (game_state = Scenario2 /\ status # "input") =>
    /\ Constructed
    /\ winner(game_state.grid) = CROSS
    /\ winning_cells(game_state.grid) = <<0, 4, 8>>
    /\ game_over(game_state.grid)
    /\ ~tie(game_state.grid)

C9_Witness == game_state = Scenario2 /\ Constructed

\* C10 as stated: every cell string validate_grid accepts has nine cells,
\* and its three counts add up to 9
C10_AsStated ==
  validate_grid(game_state.grid) =>
    /\ Len(game_state.grid) = 9
    /\ x_count(game_state.grid) + o_count(game_state.grid)
         + empty_count(game_state.grid) = 9

----------------------------------------------------------------------------
(* Claims about the properties of a constructed state (specification CtorSpec) *)

\* C11: a constructed state has a winner, or is a tie, or is not game over,
\* and exactly one of the three; game_over is "winner or tie", and a tie
\* has no winner
C11_ExactlyOne ==
  Constructed =>
    LET won == winner(game_state.grid) # None
        tied == tie(game_state.grid)
        over == game_over(game_state.grid)
    IN /\ \/ won /\ ~tied /\ over
          \/ ~won /\ tied /\ over
          \/ ~won /\ ~tied /\ ~over
       /\ over = (won \/ tied)
       /\ ~(won /\ tied)

\* a constructed full grid without a winner
C11_Witness ==
  /\ Constructed
  /\ tie(game_state.grid)
  /\ empty_count(game_state.grid) = 0

----------------------------------------------------------------------------
(* Claims about calls on a constructed state (specification CallSpec) *)

\* C12: evaluate_score(m) on a constructed state raises UnknownGameScore
\* when the state is not game over; on a game-over state it returns 1 when
\* m is the winner, -1 when the other mark is the winner and 0 on a tie,
\* which is the negation of what it returns for the other mark
C12_EvaluateScore ==
  result.call = "evaluate_score" =>
    LET cells == game_state.grid
        m == result.mark
    IN IF ~game_over(cells) THEN result.value.status = "UnknownGameScore"
       ELSE /\ result.value.status = "ok"
            /\ winner(cells) = m => result.value.score = 1
            /\ winner(cells) = other(m) => result.value.score = -1
            /\ tie(cells) => result.value.score = 0
            /\ result.value.score \in {-1, 0, 1}
            /\ result.value.score = -(evaluate_score(game_state, other(m)).score)

\* the score of the mark that lost
C12_Witness ==
  /\ result.call = "evaluate_score"
  /\ result.value.status = "ok"
  /\ result.value.score = -1
  /\ winner(game_state.grid) = other(result.mark)

\* the 0-based positions of the cells that hold a space
EmptyCells(cells) == {i \in 0..(Len(cells) - 1) : cells[i + 1] = EMPTY}

\* moves holds one Move per empty cell of gs, in ascending order of the
\* cell, each the Move make_move_to gives for that cell
OneMovePerEmptyCell(moves, gs) ==
  /\ Len(moves) = Cardinality(EmptyCells(gs.grid))
  /\ \A k \in 1..Len(moves) :
       /\ moves[k].cell_index \in EmptyCells(gs.grid)
       /\ moves[k] = make_move_to(gs, moves[k].cell_index)
       /\ moves[k].mark = current_mark(gs)
       /\ moves[k].before_state = gs
  /\ \A j, k \in 1..Len(moves) : j < k => moves[j].cell_index < moves[k].cell_index

\* C13 as stated: on every constructed state possible_moves is the empty
\* list when the game is over and else one Move per empty cell, ascending,
\* each the Move of make_move_to; make_random_move returns None exactly when
\* possible_moves is empty and else one of its elements
C13_AsStated ==
  /\ result.call = "possible_moves" =>
       /\ result.value.status = "ok"
       /\ IF game_over(game_state.grid) THEN result.value.moves = <<>>
          ELSE OneMovePerEmptyCell(result.value.moves, game_state)
  /\ result.call = "make_random_move" =>
       /\ possible_moves(game_state).status = "ok"
       /\ result.value = NoMove <=> possible_moves(game_state).moves = <<>>
       /\ result.value # NoMove =>
            \E k \in 1..Len(possible_moves(game_state).moves) :
              result.value = possible_moves(game_state).moves[k]

\* C14: make_move of a player whose mark is not current_mark raises
\* InvalidMove without calling get_move, and the caller gets no state; with
\* the marks equal get_move is called, None from it gives InvalidMove, a
\* Move from it gives that Move's after_state and nothing else; a computer
\* player answers None on a game-over state
C14_MakeMove ==
  result.call = "make_move" =>
    LET outcome == result.value
    IN IF result.player.mark # current_mark(game_state)
       THEN /\ outcome.status = "InvalidMove"
            /\ outcome.error = OtherTurn
            /\ ~outcome.asked
            /\ outcome.state = game_state
       ELSE /\ outcome.asked
            /\ outcome.answer \in get_move(result.player, game_state)
            /\ outcome.answer = NoMove =>
                 /\ outcome.status = "InvalidMove"
                 /\ outcome.error = NoMoreMoves
                 /\ outcome.state = game_state
            /\ outcome.answer.status = "ok" =>
                 /\ outcome.status = "ok"
                 /\ outcome.state = outcome.answer.after_state
            /\ outcome.status = "ok" => outcome.answer.status = "ok"
            /\ (game_over(game_state.grid) /\ result.player.kind \in Kinds) =>
                 outcome.answer = NoMove

\* a computer player asked on its turn in a game-over state
C14_Witness ==
  /\ result.call = "make_move"
  /\ result.player.mark = current_mark(game_state)
  /\ result.player.kind = "minimax"
  /\ game_over(game_state.grid)
  /\ result.value.status = "InvalidMove"
  /\ result.value.answer = NoMove

----------------------------------------------------------------------------
(* Claims about winner and winning_cells (specification CtorSpec) *)

\* the eight lines as index triples: rows, columns, diagonal, anti-diagonal
Lines ==
  << <<0, 1, 2>>, <<3, 4, 5>>, <<6, 7, 8>>,
     <<0, 3, 6>>, <<1, 4, 7>>, <<2, 5, 8>>,
     <<0, 4, 8>>, <<2, 4, 6>> >>

\* the three cells of line k hold mark
Holds(cells, k, mark) == \A i \in 1..3 : cells[Lines[k][i] + 1] = mark

\* (line k, mark) is the first combination that holds, lines in order and
\* for each line CROSS before NAUGHT
FirstHolding(cells, k, mark) ==
  /\ Holds(cells, k, mark)
  /\ \A j \in 1..(k - 1), m \in Marks : ~Holds(cells, j, m)
  /\ mark = NAUGHT => ~Holds(cells, k, CROSS)

\* C15: on every grid of X, O and empty cells winner is the mark of the
\* first (line, mark) combination whose three cells hold the mark and
\* winning_cells are the indices of that line; winner is None, and
\* winning_cells empty, exactly when no line is held by one mark, which is
\* the index-triple test cells[a] == cells[b] == cells[c] != EMPTY; every
\* winning cell holds the winner's mark
C15_FirstLine ==
  game_state.grid \in StandardCells =>
    LET cells == game_state.grid
        w == winner(cells)
        wc == winning_cells(cells)
    IN /\ \A k \in 1..8, m \in Marks :
            FirstHolding(cells, k, m) => (w = m /\ wc = Lines[k])
       /\ w \in Marks => \E k \in 1..8 : FirstHolding(cells, k, w)
       /\ w = None <=> \A k \in 1..8, m \in Marks : ~Holds(cells, k, m)
       /\ w = None <=> wc = <<>>
       /\ \A i \in 1..Len(wc) : cells[wc[i] + 1] = w
       /\ w # None <=>
            \E k \in 1..8 :
              /\ cells[Lines[k][1] + 1] = cells[Lines[k][2] + 1]
              /\ cells[Lines[k][2] + 1] = cells[Lines[k][3] + 1]
              /\ cells[Lines[k][3] + 1] # EMPTY

\* a constructed grid where both marks hold a line and the first line is O's
C15_Witness ==
  /\ Constructed
  /\ game_state.grid \in StandardCells
  /\ HasLine(CROSS, game_state.grid)
  /\ HasLine(NAUGHT, game_state.grid)
  /\ winner(game_state.grid) = NAUGHT
  /\ winning_cells(game_state.grid) = <<0, 1, 2>>

----------------------------------------------------------------------------
(* Claims about the loop of TicTacToe.play *)

\* the pass of the loop that is ending raised InvalidMove
Failed == pc = "move" /\ status' = "InvalidMove"

\* C16 (specification OtherSpec): a pass of the loop in which make_move
\* raises InvalidMove leaves game_state as it is, so no mark is placed and
\* the same player is the current one; error_handler is called with the
\* error when there is one and not otherwise; the loop goes on, renders the
\* same state and asks again; game_state changes only in a pass whose
\* make_move returned, to the state it returned
C16_InvalidMoveKeepsState ==
  [][ /\ Failed =>
           /\ game_state' = game_state
           /\ get_current_player(game_state') = get_current_player(game_state)
           /\ caught' \in {NoMoreMoves, NotEmpty, OtherTurn}
           /\ handled' = IF error_handler = None THEN None ELSE caught'
           /\ pc' = "render"
      /\ (pc = "render" /\ status = "InvalidMove") =>
           /\ rendered' = game_state
           /\ rendered' = rendered
           /\ pc' = "move"
      /\ game_state' # game_state =>
           /\ pc = "move"
           /\ status' = "ok"
           /\ game_state' = move'.after_state
           /\ move'.before_state = game_state
           /\ caught' = None
           /\ handled' = None ]_vars

\* InvalidMove was caught and handed to error_handler, the same state has
\* been rendered again and the player is about to be asked again
C16_Witness ==
  /\ pc = "move"
  /\ status = "InvalidMove"
  /\ error_handler # None
  /\ handled = NotEmpty
  /\ rendered = game_state
  /\ ~game_not_started(game_state.grid)

\* the moves made so far in a game on nine cells
MovesMade == 9 - empty_count(game_state.grid)

\* C17 (specification Spec): every state handed to the renderer is a
\* constructed GameState; the first one is the empty grid, rendered before
\* any move; a player is asked for a move only when the current state has
\* been rendered and is not game over, so every new state is rendered before
\* the next move is requested; when play returns the last state rendered is
\* the final one and it is game over.  The renderer is called once before
\* the first move and once after every move, the call after the last move
\* being the one at the end of the game
C17_Rendered ==
  /\ renders = 0 => (pc = "render" /\ move = NoMove /\ game_not_started(game_state.grid))
  /\ renders > 0 => Construct(rendered.grid, rendered.starting_mark) = "ok"
  /\ renders = 1 => game_not_started(rendered.grid)
  /\ pc = "move" =>
       /\ rendered = game_state
       /\ ~game_over(rendered.grid)
       /\ renders = MovesMade + 1
  /\ pc = "render" => renders = MovesMade
  /\ pc = "done" =>
       /\ rendered = game_state
       /\ game_over(rendered.grid)
       /\ renders = MovesMade + 1

\* a game of nine moves has returned, the renderer was called ten times
C17_Witness ==
  /\ pc = "done"
  /\ renders = 10
  /\ rendered = game_state
  /\ game_over(rendered.grid)

\* C18 (specification FairSpec): with the computer players every pass of
\* the loop makes a move, a move fills exactly one empty cell, a game-over
\* state has between 5 and 9 moves, play returns once such a state is
\* rendered, and every game reaches game over and returns
C18_Terminates ==
  /\ [][ /\ pc = "move" => (status' = "ok" /\ game_state' # game_state)
         /\ game_state' # game_state =>
              empty_count(game_state'.grid) = empty_count(game_state.grid) - 1 ]_vars
  /\ [](game_over(game_state.grid) => MovesMade \in 5..9)
  /\ [](pc = "done" => game_over(game_state.grid))
  /\ [](~game_over(game_state.grid) => pc # "done")
  /\ <>[](pc = "done" /\ game_over(game_state.grid))

\* play has returned after five moves
C18_Witness ==
  /\ pc = "done"
  /\ MovesMade = 5
  /\ winner(game_state.grid) = game_state.starting_mark

----------------------------------------------------------------------------
(* Legal play: make_move_to on empty cells of states that are not over
   (specification LegalSpec) *)

\* GameState(Grid(), starting_mark) for either starting mark
LegalInit ==
  /\ \E starting_mark \in Marks :
       /\ game_state = GameState(Spaces(9), starting_mark)
       /\ status = Construct(Spaces(9), starting_mark)
  /\ arg = None
  /\ move = NoMove
  /\ pc = "idle"
  /\ player1 = Idle
  /\ player2 = Idle
  /\ rendered = None
  /\ renders = 0
  /\ error_handler = None
  /\ caught = None
  /\ handled = None
  /\ result = NoCall

\* the call made on finished games as well
Mutant_LegalMoveTo ==
  /\ status = "ok"
  /\ \E index \in 0..8 :
       /\ game_state.grid[index + 1] = EMPTY
       /\ \E m \in {make_move_to(game_state, index)} :
            /\ arg' = index
            /\ move' = m
            /\ status' = m.status
            /\ game_state' = IF m.status = "ok" THEN m.after_state ELSE game_state
  /\ UNCHANGED <<play_vars, result>>

\* game_state = game_state.make_move_to(index).after_state for an empty cell
\* of a state that is not over; an exception leaves game_state as it was
LegalMoveTo ==
  /\ status = "ok"
  /\ ~game_over(game_state.grid)
  /\ \E index \in 0..8 :
       /\ game_state.grid[index + 1] = EMPTY
       /\ \E m \in {make_move_to(game_state, index)} :
            /\ arg' = index
            /\ move' = m
            /\ status' = m.status
            /\ game_state' = IF m.status = "ok" THEN m.after_state ELSE game_state
  /\ UNCHANGED <<play_vars, result>>

LegalNext == LegalMoveTo

LegalSpec == LegalInit /\ [][LegalNext]_vars

\* C19: in legal play from the empty grid, for either starting mark, every
\* make_move_to succeeds, the state it returns passes the validators and
\* keeps the starting mark, and a winner, if there is one, is the mark that
\* moved last (the other of current_mark) and the only mark holding a line
C19_LegalPlay ==
  /\ status = "ok"
  /\ Construct(game_state.grid, game_state.starting_mark) = "ok"
  /\ move # NoMove =>
       /\ move.after_state = game_state
       /\ move.after_state.starting_mark = move.before_state.starting_mark
       /\ move.mark = other(current_mark(game_state))
  /\ winner(game_state.grid) # None =>
       /\ winner(game_state.grid) = other(current_mark(game_state))
       /\ \A k \in 1..8, m \in Marks :
            Holds(game_state.grid, k, m) => m = winner(game_state.grid)

\* O started and won with the ninth move
C19_Witness ==
  /\ move # NoMove
  /\ game_state.starting_mark = NAUGHT
  /\ empty_count(game_state.grid) = 0
  /\ winner(game_state.grid) = NAUGHT

----------------------------------------------------------------------------
(* Claims about turns (specification OtherSpec) *)

\* C20: in a game driven by play the first current_mark is the starting
\* mark, every move returned leads to a state whose current_mark is the
\* other mark, the two players hold different marks, get_current_player
\* returns the player whose mark is current_mark, and the InvalidMove of the
\* other player's turn is never raised
C20_TurnsAlternate ==
  /\ MovesMade = 0 => current_mark(game_state) = game_state.starting_mark
  /\ move # NoMove =>
       /\ move.mark = current_mark(move.before_state)
       /\ current_mark(move.after_state) = other(current_mark(move.before_state))
       /\ pc = "render" /\ status = "ok" => game_state = move.after_state
  /\ player1.mark # player2.mark
  /\ get_current_player(game_state).mark = current_mark(game_state)
  /\ caught # OtherTurn

\* after two moves the player asked raised an InvalidMove of its own
C20_Witness ==
  /\ MovesMade = 2
  /\ status = "InvalidMove"
  /\ caught = NotEmpty
  /\ get_current_player(game_state) = player1

====
